---- MODULE Spec2Model ----
(***************************************************************************)
(* BB84 key-distribution simulator with a one-time-pad XOR cipher.         *)
(* The model follows docs/script.js; the file defines its functions more  *)
(* than once and the last definition of each is the one the page runs.     *)
(*                                                                         *)
(* The older page with hex output (part_000) is modelled in a section of   *)
(* its own.                                                                *)
(*                                                                         *)
(* Text is a sequence of one-character strings; a message is a sequence of *)
(* UTF-16 code units (integers); bytes and bits are integers.              *)
(***************************************************************************)
EXTENDS Integers, Sequences, FiniteSets, TLC

VARIABLES
    lastOp,          \* what the user did last: "none", "edit", "runQKD", "decryptMessage"
    message,         \* value of the #message field
    rng,             \* state of the random source: the draws the next run gets
    output,          \* content of #output
    keyInput,        \* value of the #keyInput field
    ctInput,         \* value of the #ciphertext field
    decryptOutput,   \* content of #decryptOutput
    callArgs,        \* arguments of a helper function called on its own
    callRet          \* values returned by the helper calls made so far

vars == <<lastOp, message, rng, output, keyInput, ctInput, decryptOutput, callArgs, callRet>>

----------------------------------------------------------------------------
(* Bounds of the explored inputs *)

MaxMsgLen == 2       \* code units in a message
MaxTextLen == 17     \* characters typed into a decrypt field (pasted texts are longer)
MaxBitsLen == 4      \* bits in a sequence given to xorBits or siftBits
MaxBytesLen == 2     \* bytes in a sequence given to bytesToBits
MaxStrLen == 3       \* characters in a string given to validateBinaryInput or parseBinaryString

----------------------------------------------------------------------------
(* Generic sequence helpers *)

\* a sequence given by its elements, evaluated once (an array)
Array(f) == f \o <<>>

Cycle(p, n) == Array([i \in 1..n |-> p[((i - 1) % Len(p)) + 1]])

RECURSIVE SeqsUpTo(_, _)
SeqsUpTo(S, n) ==
    IF n = 0 THEN {<<>>}
    ELSE LET shorter == SeqsUpTo(S, n - 1)
         IN  shorter \cup {Append(s, x) : s \in {t \in shorter : Len(t) = n - 1}, x \in S}

SeqsOfLen(S, n) == {s \in SeqsUpTo(S, n) : Len(s) = n}

Pow2(i) == 2 ^ i

----------------------------------------------------------------------------
(* JavaScript string primitives used by the handlers *)

\* characters matched by \s and removed by String.prototype.trim
IsWhiteSpace(c) == c \in {" ", "\t", "\n"}

RECURSIVE TrimStart(_)
TrimStart(s) ==
    IF s = <<>> THEN <<>>
    ELSE IF IsWhiteSpace(Head(s)) THEN TrimStart(Tail(s)) ELSE s

RECURSIVE TrimEnd(_)
TrimEnd(s) ==
    IF s = <<>> THEN <<>>
    ELSE IF IsWhiteSpace(s[Len(s)]) THEN TrimEnd(SubSeq(s, 1, Len(s) - 1)) ELSE s

Trim(s) == TrimEnd(TrimStart(s))

\* str.replace(/\s/g, "")
RemoveWhiteSpace(s) == SelectSeq(s, LAMBDA c : ~IsWhiteSpace(c))

NaN == -1    \* stands for the JavaScript NaN (no bit or digit is negative)

\* parseInt(c, 10) of a one-character string
ParseInt(c) ==
    CASE c = "0" -> 0 [] c = "1" -> 1 [] c = "2" -> 2 [] c = "3" -> 3 [] c = "4" -> 4
      [] c = "5" -> 5 [] c = "6" -> 6 [] c = "7" -> 7 [] c = "8" -> 8 [] c = "9" -> 9
      [] OTHER -> NaN

\* String(bit) as appended by str += bits[i]
BitChar(b) ==
    CASE b = 0 -> "0" [] b = 1 -> "1" [] b = 2 -> "2" [] b = 3 -> "3" [] b = 4 -> "4"
      [] b = 5 -> "5" [] b = 6 -> "6" [] b = 7 -> "7" [] b = 8 -> "8" [] b = 9 -> "9"
      [] OTHER -> "NaN"

----------------------------------------------------------------------------
(* Bit and byte helpers *)

\* (b >> i) & 1
BitOf(b, i) == (b \div Pow2(i)) % 2

bytesToBits_lsbFirst(bytes) ==
    Array([k \in 1..(8 * Len(bytes)) |-> BitOf(bytes[((k - 1) \div 8) + 1], (k - 1) % 8)])

bytesToBits(bytes) ==
    Array([k \in 1..(8 * Len(bytes)) |->
              BitOf(bytes[((k - 1) \div 8) + 1], 7 - ((k - 1) % 8))])

\* bits[i] || 0 : an index past the end reads undefined, which || turns to 0
BitOrZero(bits, i) == IF i <= Len(bits) THEN bits[i] ELSE 0

\* the inner loop: byte = (byte << 1) | (bits[i + j] || 0) for j = 0..7
RECURSIVE ShiftIn(_, _, _)
ShiftIn(bits, i, j) ==
    IF j = 0 THEN 0
    ELSE 2 * ShiftIn(bits, i, j - 1) + BitOrZero(bits, i + j)

bitsToBytes(bits) ==
    Array([c \in 1..((Len(bits) + 7) \div 8) |-> ShiftIn(bits, 8 * (c - 1), 8)])

\* b ^ bits2[i] : undefined on the right acts as 0
Xor(a, b) == (a + b) % 2

xorBits_or(bits1, bits2) ==
    Array([i \in 1..Len(bits1) |->
              IF bits1[i] + BitOrZero(bits2, i) > 0 THEN 1 ELSE 0])

\* bits1.map((b, i) => b ^ bits2[i])
xorBits(bits1, bits2) ==
    Array([i \in 1..Len(bits1) |-> Xor(bits1[i], BitOrZero(bits2, i))])

\* the string built by the loop of groupBits8: one character per bit and a
\* space after every 8th, so character p is a space when p is a multiple of 9
Grouped(bits) ==
    Array([p \in 1..(Len(bits) + (Len(bits) \div 8)) |->
              IF p % 9 = 0 THEN " " ELSE BitChar(bits[p - (p \div 9)])])

groupBits8(bits) == Trim(Grouped(bits))

groupBitsFullBytes(bits) ==
    LET completeByteCount == Len(bits) \div 8
    IN  groupBits8(SubSeq(bits, 1, completeByteCount * 8))

validateBinaryInput_nonEmpty(str) == str # <<>>

\* /^[01\s]+$/.test(str)
validateBinaryInput(str) ==
    /\ str # <<>>
    /\ \A i \in 1..Len(str) : str[i] \in {"0", "1"} \/ IsWhiteSpace(str[i])

parseBinaryString(str) ==
    LET digits == RemoveWhiteSpace(str)
    IN  Array([i \in 1..Len(digits) |-> ParseInt(digits[i])])

\* crypto.getRandomValues(new Uint8Array(len)) mapped through b % 2
randomBits(randomValues) ==
    Array([i \in 1..Len(randomValues) |-> randomValues[i] % 2])

randomBases(randomValues) ==
    LET bits == randomBits(randomValues)
    IN  Array([i \in 1..Len(bits) |-> IF bits[i] # 0 THEN "+" ELSE "x"])

\* basesA[i] === basesB[i] ; an index past the end reads undefined
At(s, i) == IF i <= Len(s) THEN s[i] ELSE "undefined"

siftBits_differing(bitsA, basesA, basesB) ==
    LET kept == SelectSeq(Array([i \in 1..Len(bitsA) |-> i]),
                          LAMBDA i : At(basesA, i) # At(basesB, i))
    IN  Array([k \in 1..Len(kept) |-> bitsA[kept[k]]])

\* bitsA.filter((_, i) => basesA[i] === basesB[i])
siftBits(bitsA, basesA, basesB) ==
    LET kept == SelectSeq(Array([i \in 1..Len(bitsA) |-> i]),
                          LAMBDA i : At(basesA, i) = At(basesB, i))
    IN  Array([k \in 1..Len(kept) |-> bitsA[kept[k]]])

----------------------------------------------------------------------------
(* new TextEncoder().encode(message) : UTF-16 code units to UTF-8 bytes *)

IsHighSurrogate(u) == u \in 55296..56319     \* D800..DBFF
IsLowSurrogate(u) == u \in 56320..57343      \* DC00..DFFF

\* conversion to scalar values: a high surrogate followed by a low one is one
\* code point, any other surrogate becomes U+FFFD
IsSecondOfPair(units, i) ==
    i > 1 /\ IsLowSurrogate(units[i]) /\ IsHighSurrogate(units[i - 1])

ToCodePoints(units) ==
    LET starts == SelectSeq(Array([i \in 1..Len(units) |-> i]),
                            LAMBDA i : ~IsSecondOfPair(units, i))
    IN  Array([c \in 1..Len(starts) |->
                  LET i == starts[c]
                      u == units[i]
                  IN  IF IsHighSurrogate(u) /\ i < Len(units) /\ IsLowSurrogate(units[i + 1])
                      THEN 65536 + (u - 55296) * 1024 + (units[i + 1] - 56320)
                      ELSE IF IsHighSurrogate(u) \/ IsLowSurrogate(u) THEN 65533
                      ELSE u])

Utf8Bytes(cp) ==
    IF cp < 128 THEN <<cp>>
    ELSE IF cp < 2048 THEN <<192 + (cp \div 64), 128 + (cp % 64)>>
    ELSE IF cp < 65536
    THEN <<224 + (cp \div 4096), 128 + ((cp \div 64) % 64), 128 + (cp % 64)>>
    ELSE <<240 + (cp \div 262144), 128 + ((cp \div 4096) % 64),
           128 + ((cp \div 64) % 64), 128 + (cp % 64)>>

\* the bytes of the code points one after the other; the sequence is
\* converted by halves
RECURSIVE EncodeCodePoints(_)
EncodeCodePoints(cps) ==
    IF cps = <<>> THEN <<>>
    ELSE IF Len(cps) = 1 THEN Utf8Bytes(cps[1])
    ELSE EncodeCodePoints(SubSeq(cps, 1, Len(cps) \div 2))
            \o EncodeCodePoints(SubSeq(cps, (Len(cps) \div 2) + 1, Len(cps)))

TextEncode(units) == EncodeCodePoints(ToCodePoints(units))

----------------------------------------------------------------------------
(* new TextDecoder("utf-8", { fatal: true }).decode(bytes) *)

\* number of continuation bytes a lead byte asks for, -1 for an invalid lead
BytesNeeded(b) ==
    IF b <= 127 THEN 0
    ELSE IF b \in 194..223 THEN 1
    ELSE IF b \in 224..239 THEN 2
    ELSE IF b \in 240..244 THEN 3
    ELSE -1

\* bounds of the first continuation byte
LowerBoundary(b) == IF b = 224 THEN 160 ELSE IF b = 240 THEN 144 ELSE 128
UpperBoundary(b) == IF b = 237 THEN 159 ELSE IF b = 244 THEN 143 ELSE 191

LeadBits(b) ==
    IF b <= 127 THEN b
    ELSE IF b <= 223 THEN b - 192
    ELSE IF b <= 239 THEN b - 224
    ELSE b - 240

RECURSIVE Continuation(_, _, _, _)
Continuation(bytes, i, k, acc) ==
    IF k = 0 THEN acc
    ELSE Continuation(bytes, i + 1, k - 1, acc * 64 + (bytes[i] - 128))

\* the sequence of code points, or <<-1>> when the decoder throws
DecodeError == <<-1>>

\* a byte that can only continue a character
IsContinuationByte(b) == b \in 128..191

\* the character that starts at index j is complete and within the bounds
WellFormedAt(bytes, j) ==
    LET b == bytes[j]
        need == BytesNeeded(b)
    IN  /\ need # -1
        /\ j + need <= Len(bytes)
        /\ need >= 1 => bytes[j + 1] \in LowerBoundary(b)..UpperBoundary(b)
        /\ \A k \in 2..need : bytes[j + k] \in 128..191

\* index p is the lead byte of a character or one of the bytes it asks for
InCharacter(bytes, i, p) ==
    \E k \in 0..3 :
        /\ p - k >= i
        /\ ~IsContinuationByte(bytes[p - k])
        /\ BytesNeeded(bytes[p - k]) >= k

\* The decoder reads the bytes from index i on, one character after the
\* other, and throws at the first byte that does not fit. It reaches the end
\* exactly when every byte that is not a continuation byte starts a
\* well-formed character and every other byte belongs to one; the characters
\* are then the ones that start at those bytes.
DecodeFrom(bytes, i) ==
    LET leads == SelectSeq(Array([p \in 1..(Len(bytes) - i + 1) |-> p + i - 1]),
                           LAMBDA p : ~IsContinuationByte(bytes[p]))
    IN  IF /\ \A p \in i..Len(bytes) : InCharacter(bytes, i, p)
           /\ \A c \in 1..Len(leads) : WellFormedAt(bytes, leads[c])
        THEN Array([c \in 1..Len(leads) |->
                       Continuation(bytes, leads[c] + 1, BytesNeeded(bytes[leads[c]]),
                                    LeadBits(bytes[leads[c]]))])
        ELSE DecodeError

\* ignoreBOM defaults to false: a leading EF BB BF is consumed, not output
HasBOM(bytes) == Len(bytes) >= 3 /\ SubSeq(bytes, 1, 3) = <<239, 187, 191>>

SkipBOM(bytes) == IF HasBOM(bytes) THEN 4 ELSE 1

\* each code point gives one code unit or a surrogate pair; the sequence is
\* converted by halves
RECURSIVE ToCodeUnits(_)
ToCodeUnits(cps) ==
    IF cps = <<>> THEN <<>>
    ELSE IF Len(cps) = 1
    THEN LET cp == cps[1]
         IN  IF cp >= 65536
             THEN <<55296 + ((cp - 65536) \div 1024), 56320 + ((cp - 65536) % 1024)>>
             ELSE <<cp>>
    ELSE ToCodeUnits(SubSeq(cps, 1, Len(cps) \div 2))
            \o ToCodeUnits(SubSeq(cps, (Len(cps) \div 2) + 1, Len(cps)))

\* "(Could not decode as UTF-8 text - data may be corrupted)"
CouldNotDecode ==
    <<40, 67, 111, 117, 108, 100, 32, 110, 111, 116, 32, 100, 101, 99, 111, 100,
      101, 32, 97, 115, 32, 85, 84, 70, 45, 56, 32, 116, 101, 120, 116, 32, 45,
      32, 100, 97, 116, 97, 32, 109, 97, 121, 32, 98, 101, 32, 99, 111, 114,
      114, 117, 112, 116, 101, 100, 41>>

\* try { decodedMessage = decode(...) } catch (e) { decodedMessage = "(Could not ...)" }
TextDecodeOrMessage(bytes) ==
    LET cps == DecodeFrom(bytes, SkipBOM(bytes))
    IN  IF cps = DecodeError THEN CouldNotDecode ELSE ToCodeUnits(cps)

----------------------------------------------------------------------------
(* The page: runQKD (left panel) and decryptMessage (right panel) *)

MULTIPLIER == 8

\* array.slice(0, end)
Slice_tail(s, end) == IF end < Len(s) THEN SubSeq(s, Len(s) - end + 1, Len(s)) ELSE s

Slice(s, end) == SubSeq(s, 1, IF end < Len(s) THEN end ELSE Len(s))

\* bits.join("")
JoinBits(bits) == Array([i \in 1..Len(bits) |-> BitChar(bits[i])])

\* outEl.innerHTML = "" and the values interpolated into the other templates
NoOutput ==
    [kind |-> "empty", neededKeyBits |-> 0, siftedCount |-> 0, rawCount |-> 0,
     keyBytesUsable |-> 0, ptByteLen |-> 0, groupedKeyUsed |-> <<>>,
     groupedCt |-> <<>>, groupedKeyAll |-> <<>>, groupedPt |-> <<>>,
     bitsAStr |-> <<>>, basesAStr |-> <<>>, basesBStr |-> <<>>]

\* !message : only the empty string is falsy
IsEmptyMessage(msg) == msg = <<>>

\* siftedKey.length < neededKeyBits
SiftedTooShort_onlyEmpty(siftedKey, neededKeyBits) == Len(siftedKey) = 0

SiftedTooShort_orEqual(siftedKey, neededKeyBits) == Len(siftedKey) <= neededKeyBits

SiftedTooShort(siftedKey, neededKeyBits) == Len(siftedKey) < neededKeyBits

\* the three draws are given by the bytes crypto.getRandomValues returns;
\* a draw pattern p stands for the bytes p[1], p[2], ..., p[1], ... of length len
GetRandomValues(p, len) == Cycle(p, len)

\* const n = neededKeyBits * MULTIPLIER
RawLength_noMultiplier(neededKeyBits) == neededKeyBits

RawLength(neededKeyBits) == neededKeyBits * MULTIPLIER

runQKD(msg, drawBits, drawA, drawB) ==
    IF IsEmptyMessage(msg) THEN NoOutput
    ELSE
    LET msgBytes == TextEncode(msg)
        msgBits == bytesToBits(msgBytes)
        neededKeyBits == Len(msgBits)
        n == RawLength(neededKeyBits)
        bitsA == randomBits(GetRandomValues(drawBits, n))
        basesA == randomBases(GetRandomValues(drawA, n))
        basesB == randomBases(GetRandomValues(drawB, n))
        siftedKey == siftBits(bitsA, basesA, basesB)
    IN  IF SiftedTooShort(siftedKey, neededKeyBits)
        THEN [NoOutput EXCEPT !.kind = "keyTooShort",
                              !.neededKeyBits = neededKeyBits,
                              !.siftedCount = Len(siftedKey)]
        ELSE
        LET keyBitsUsed == Slice(siftedKey, neededKeyBits)
            ctBits == xorBits(msgBits, keyBitsUsed)
        IN  [kind |-> "ok",
             neededKeyBits |-> neededKeyBits,
             siftedCount |-> Len(siftedKey),
             rawCount |-> n,
             keyBytesUsable |-> Len(siftedKey) \div 8,
             ptByteLen |-> Len(msgBytes),
             groupedKeyUsed |-> groupBits8(keyBitsUsed),
             groupedCt |-> groupBits8(ctBits),
             groupedKeyAll |-> groupBitsFullBytes(siftedKey),
             groupedPt |-> groupBits8(msgBits),
             bitsAStr |-> JoinBits(bitsA),
             basesAStr |-> basesA,
             basesBStr |-> basesB]

\* outEl.innerHTML = "" and the values interpolated into the other templates
NoDecryptOutput ==
    [kind |-> "empty", keyBits |-> 0, ctBits |-> 0, decodedMessage |-> <<>>]

\* keyBits.length !== ctBits.length
LengthsDiffer_inBytes(keyBits, ctBits) == (Len(keyBits) \div 8) # (Len(ctBits) \div 8)

LengthsDiffer(keyBits, ctBits) == Len(keyBits) # Len(ctBits)

\* ctBits.length % 8 !== 0
NotMultipleOf8_mod4(length) == length % 4 # 0

NotMultipleOf8(length) == length % 8 # 0

\* !keyStr || !ctStr
MissingInput_both(keyStr, ctStr) == keyStr = <<>> /\ ctStr = <<>>

MissingInput(keyStr, ctStr) == keyStr = <<>> \/ ctStr = <<>>

decryptMessage(keyValue, ctValue) ==
    LET kStr == Trim(keyValue)
        cStr == Trim(ctValue)
    IN  IF MissingInput(kStr, cStr) THEN NoDecryptOutput
        ELSE IF ~validateBinaryInput(kStr)
        THEN [NoDecryptOutput EXCEPT !.kind = "keyInvalid"]
        ELSE IF ~validateBinaryInput(cStr)
        THEN [NoDecryptOutput EXCEPT !.kind = "ciphertextInvalid"]
        ELSE
        LET keyBits == parseBinaryString(kStr)
            ctBits == parseBinaryString(cStr)
        IN  IF LengthsDiffer(keyBits, ctBits)
            THEN [NoDecryptOutput EXCEPT !.kind = "lengthMismatch",
                                         !.keyBits = Len(keyBits),
                                         !.ctBits = Len(ctBits)]
            ELSE IF NotMultipleOf8(Len(ctBits))
            THEN [NoDecryptOutput EXCEPT !.kind = "notMultipleOf8",
                                         !.ctBits = Len(ctBits)]
            ELSE
            LET ptBits == xorBits(ctBits, keyBits)
                ptBytes == bitsToBytes(ptBits)
            IN  [NoDecryptOutput EXCEPT !.kind = "decrypted",
                                        !.decodedMessage = TextDecodeOrMessage(ptBytes)]

----------------------------------------------------------------------------
(* The hex-output variant of the page (part_000): its runQKD shows the     *)
(* ciphertext through encodeMessageHex; randomBits, randomBases and        *)
(* siftBits are the same functions as above.                               *)

\* code units removed by String.prototype.trim
IsWhiteSpaceUnit(u) ==
    u \in {9, 10, 11, 12, 13, 32, 160, 5760, 8232, 8233, 8239, 8287, 12288, 65279}
          \cup (8192..8202)

\* messageInput.value.trim()
TrimUnits(units) ==
    LET kept == {i \in 1..Len(units) : ~IsWhiteSpaceUnit(units[i])}
    IN  IF kept = {} THEN <<>>
        ELSE SubSeq(units, CHOOSE i \in kept : \A j \in kept : i <= j,
                           CHOOSE i \in kept : \A j \in kept : j <= i)

\* str.replace(/(.{k})/g, "$1 ").trim() : a space after every k-th character
GroupedBy(chars, k) ==
    Trim(Array([p \in 1..(Len(chars) + (Len(chars) \div k)) |->
                   IF p % (k + 1) = 0 THEN " " ELSE chars[p - (p \div (k + 1))]]))

groupBitsFullBytesHex(bits) ==
    LET s == JoinBits(bits)
        fullLen == (Len(s) \div 8) * 8
        full == SubSeq(s, 1, fullLen)
    IN  GroupedBy(full, 8)

HexDigit(d) ==
    <<"0", "1", "2", "3", "4", "5", "6", "7", "8", "9", "a", "b", "c", "d", "e", "f">>[d + 1]

\* b.toString(16).padStart(2, "0") of a byte
ToString16Pad2(b) == <<HexDigit(b \div 16), HexDigit(b % 16)>>

\* a two-character string stored into an element of a Uint8Array: ToNumber
\* of the string, NaN stored as 0
StringToUint8(str) ==
    IF ParseInt(str[1]) = NaN \/ ParseInt(str[2]) = NaN THEN 0
    ELSE 10 * ParseInt(str[1]) + ParseInt(str[2])

\* String(k) of a non-negative integer
RECURSIVE NumberToString(_)
NumberToString(k) ==
    IF k < 10 THEN <<BitChar(k)>>
    ELSE NumberToString(k \div 10) \o <<BitChar(k % 10)>>

\* strs.join("")
RECURSIVE Join(_)
Join(strs) == IF strs = <<>> THEN <<>> ELSE Head(strs) \o Join(Tail(strs))

\* b ^ keyBytes[i] on two bytes
XorByte(a, b) == bitsToBytes(xorBits(bytesToBits(<<a>>), bytesToBits(<<b>>)))[1]

\* Returns the error string or the object { hex, groupedHex, byteLen }.
\* msgBytes is a Uint8Array, so both map calls give a Uint8Array: the strings
\* the second callback returns are stored as numbers, and join("") joins the
\* decimal forms of those numbers.
encodeMessageHex(msg, keyBits) ==
    LET msgBytes == TextEncode(msg)
        keyBytes == bitsToBytes(SubSeq(keyBits, 1, 8 * (Len(keyBits) \div 8)))
    IN  IF Len(keyBytes) < Len(msgBytes)
        THEN [type |-> "string",
              value |-> "(Error: Sifted key too short to encrypt message!)"]
        ELSE
        LET encryptedBytes ==
                Array([i \in 1..Len(msgBytes) |-> XorByte(msgBytes[i], keyBytes[i])])
            stored ==
                Array([i \in 1..Len(encryptedBytes) |->
                          StringToUint8(ToString16Pad2(encryptedBytes[i]))])
            hex == Join(Array([i \in 1..Len(stored) |-> NumberToString(stored[i])]))
        IN  [type |-> "object",
             hex |-> hex,
             groupedHex |-> GroupedBy(hex, 2),
             byteLen |-> Len(encryptedBytes)]

\* `${undefined}` : a property read from a string that has no such property
UndefinedText == <<"u", "n", "d", "e", "f", "i", "n", "e", "d">>

\* str.length > max ? str.slice(0, max) + "..." : str, with max = 80
truncate(str) ==
    IF Len(str) > 80 THEN SubSeq(str, 1, 80) \o <<".", ".", ".">> ELSE str

\* #output before the first run, and the values interpolated into the template
NoOutputHex ==
    [kind |-> "empty", rawCount |-> 0, siftedCount |-> 0, fullKeyBytes |-> 0,
     bitsAStr |-> <<>>, basesAStr |-> <<>>, basesBStr |-> <<>>, groupedKey |-> <<>>,
     byteLen |-> <<>>, encryptedHexGrouped |-> <<>>]

\* kind names the template written to #output: "pleaseEnter" is
\* "<p>Please enter a message.</p>", "result" is the only other one
runQKDHex(value, drawBits, drawA, drawB) ==
    LET msg == TrimUnits(value)
    IN  IF Len(msg) = 0 THEN [NoOutputHex EXCEPT !.kind = "pleaseEnter"]
        ELSE
        LET n == Len(msg) * 8 * MULTIPLIER
            bitsA == randomBits(GetRandomValues(drawBits, n))
            basesA == randomBases(GetRandomValues(drawA, n))
            basesB == randomBases(GetRandomValues(drawB, n))
            siftedKey == siftBits(bitsA, basesA, basesB)
            enc == encodeMessageHex(msg, siftedKey)
        IN  [kind |-> "result",
             rawCount |-> n,
             siftedCount |-> Len(siftedKey),
             fullKeyBytes |-> Len(siftedKey) \div 8,
             bitsAStr |-> truncate(JoinBits(bitsA)),
             basesAStr |-> truncate(basesA),
             basesBStr |-> truncate(basesB),
             groupedKey |-> groupBitsFullBytesHex(siftedKey),
             byteLen |-> IF enc.type = "object" THEN NumberToString(enc.byteLen)
                         ELSE UndefinedText,
             encryptedHexGrouped |-> IF enc.type = "object" THEN enc.groupedHex
                                     ELSE UndefinedText]

----------------------------------------------------------------------------
(* Inputs *)

\* "H", " ", U+00E9 (two bytes in UTF-8), U+FEFF (three bytes)
MessageUnits == {72, 32, 233, 65279}

Messages == SeqsUpTo(MessageUnits, MaxMsgLen)

\* Byte patterns the random source delivers for the three draws of one run:
\* bitsA, basesA, basesB.  With basesA = <<1>> the four basesB patterns make
\* every, no, one in 8 and one in 16 of the bases match.
BitDraws == << <<254, 255>>, <<1, 3, 2>> >>
BasesADraws == << <<1>>, <<7, 4>> >>
BasesBDraws ==
    << <<1>>, <<0>>, <<0, 0, 0, 0, 0, 0, 0, 1>>,
       <<0, 0, 0, 0, 0, 0, 0, 0, 0, 0, 0, 0, 0, 0, 0, 1>> >>

NumDraws == Len(BitDraws) * Len(BasesADraws) * Len(BasesBDraws)

\* the r-th state of the random source, r in 1..NumDraws
DrawAt(r) ==
    [bits |-> BitDraws[((r - 1) % Len(BitDraws)) + 1],
     basesA |-> BasesADraws[(((r - 1) \div Len(BitDraws)) % Len(BasesADraws)) + 1],
     basesB |-> BasesBDraws[((r - 1) \div (Len(BitDraws) * Len(BasesADraws))) + 1]]

\* texts typed into the decrypt fields, next to the pasted output of runQKD
TypedTexts == {<<>>, <<"0", "1", "0", "0", "1", "0", "0", "0">>, <<"0", "1", "a">>}

\* field contents: the first k characters of a repeated pattern
FieldPatterns ==
    {<<"0">>, <<"1">>, <<" ">>,
     <<"0", "1", "0", "0", "1", "0", "0", "0", " ">>,
     <<"0", "1", " ", "0", "1", "a">>,
     <<"\t", "1", "1", "0">>}

\* pasted field contents: the bits of the UTF-8 bytes of the text that line
\* 657 also uses as a message, and a key of as many zeros
PastedTexts ==
    {groupBits8(bytesToBits(TextEncode(CouldNotDecode))),
     Cycle(<<"0">>, 8 * Len(TextEncode(CouldNotDecode)))}

FieldTexts == {Cycle(p, k) : p \in FieldPatterns, k \in 0..MaxTextLen} \cup PastedTexts

----------------------------------------------------------------------------
(* Specification of the page *)

Init ==
    /\ lastOp = "none"
    /\ message \in Messages
    /\ rng \in 1..NumDraws
    /\ output = NoOutput
    /\ keyInput = <<>>
    /\ ctInput = <<>>
    /\ decryptOutput = NoDecryptOutput
    /\ callArgs = <<>>
    /\ callRet = <<>>

\* Ctrl+Enter in #message: the handler reads the field and draws three times
RunQKD_keepsOutput ==
    /\ lastOp' = "runQKD"
    /\ output' = IF IsEmptyMessage(message) THEN output
                 ELSE runQKD(message, DrawAt(rng).bits, DrawAt(rng).basesA, DrawAt(rng).basesB)
    /\ rng' = IF IsEmptyMessage(message) THEN rng ELSE (rng % NumDraws) + 1
    /\ UNCHANGED <<message, keyInput, ctInput, decryptOutput, callArgs, callRet>>

RunQKD ==
    /\ lastOp' = "runQKD"
    /\ output' = runQKD(message, DrawAt(rng).bits, DrawAt(rng).basesA, DrawAt(rng).basesB)
    /\ rng' = IF IsEmptyMessage(message) THEN rng ELSE (rng % NumDraws) + 1
    /\ UNCHANGED <<message, keyInput, ctInput, decryptOutput, callArgs, callRet>>

\* the user empties #message
ClearMessage ==
    /\ message # <<>>
    /\ message' = <<>>
    /\ lastOp' = "edit"
    /\ UNCHANGED <<rng, output, keyInput, ctInput, decryptOutput, callArgs, callRet>>

\* the handler, on the contents the two fields have when it runs
DecryptMessage ==
    /\ lastOp' = "decryptMessage"
    /\ decryptOutput' = decryptMessage(keyInput', ctInput')
    /\ UNCHANGED <<message, rng, output, callArgs, callRet>>

\* the key and the ciphertext shown by runQKD are copied into the decrypt
\* fields and Ctrl+Enter is pressed
DecryptPasted ==
    /\ output.kind = "ok"
    /\ keyInput' = output.groupedKeyUsed
    /\ ctInput' = output.groupedCt
    /\ DecryptMessage

\* the user types both fields and presses Ctrl+Enter
DecryptTyped ==
    \E keyValue \in TypedTexts, ctValue \in TypedTexts :
        /\ keyInput' = keyValue
        /\ ctInput' = ctValue
        /\ DecryptMessage

Next == RunQKD \/ ClearMessage \/ DecryptPasted \/ DecryptTyped

Spec == Init /\ [][Next]_vars

----------------------------------------------------------------------------
(* The decrypt panel alone, over a wider set of field contents *)

InitDecrypt ==
    /\ lastOp = "none"
    /\ message = <<>>
    /\ rng = 1
    /\ output = NoOutput
    /\ keyInput \in FieldTexts
    /\ ctInput \in FieldTexts
    /\ decryptOutput = NoDecryptOutput
    /\ callArgs = <<>>
    /\ callRet = <<>>

\* Ctrl+Enter in either field
DecryptPressed ==
    /\ UNCHANGED <<keyInput, ctInput>>
    /\ DecryptMessage

NextDecrypt == DecryptPressed

SpecDecrypt == InitDecrypt /\ [][NextDecrypt]_vars

----------------------------------------------------------------------------
(* The hex-output variant of the page: only a message field and #output *)

InitHex ==
    /\ lastOp = "none"
    /\ message \in Messages
    /\ rng \in 1..NumDraws
    /\ output = NoOutputHex
    /\ keyInput = <<>>
    /\ ctInput = <<>>
    /\ decryptOutput = NoDecryptOutput
    /\ callArgs = <<>>
    /\ callRet = <<>>

\* Enter in #message
RunQKDHex ==
    /\ lastOp' = "runQKD"
    /\ output' = runQKDHex(message, DrawAt(rng).bits, DrawAt(rng).basesA, DrawAt(rng).basesB)
    /\ rng' = IF TrimUnits(message) = <<>> THEN rng ELSE (rng % NumDraws) + 1
    /\ UNCHANGED <<message, keyInput, ctInput, decryptOutput, callArgs, callRet>>

NextHex == RunQKDHex

SpecHex == InitHex /\ [][NextHex]_vars

----------------------------------------------------------------------------
(* The helper functions called on their own *)

PageIdle ==
    /\ lastOp = "none"
    /\ message = <<>>
    /\ rng = 1
    /\ output = NoOutput
    /\ keyInput = <<>>
    /\ ctInput = <<>>
    /\ decryptOutput = NoDecryptOutput

pageVars == <<lastOp, message, rng, output, keyInput, ctInput, decryptOutput>>

BitSeqs(n) == SeqsOfLen({0, 1}, n)
BasisSeqs(n) == SeqsOfLen({"+", "x"}, n)

\* xorBits twice with the same key: encrypt, then decrypt
InitXor ==
    /\ PageIdle
    /\ \E n \in 0..MaxBitsLen :
          callArgs \in [K : BitSeqs(n), key : BitSeqs(n)]
    /\ callRet = <<>>

CallXorBits ==
    /\ Len(callRet) < 2
    /\ callRet' = Append(callRet,
                         xorBits(IF callRet = <<>> THEN callArgs.K ELSE callRet[1],
                                 callArgs.key))
    /\ UNCHANGED <<pageVars, callArgs>>

NextXor == CallXorBits

SpecXor == InitXor /\ [][NextXor]_vars

\* bytesToBits, then bitsToBytes of its result
ByteSamples == {0, 1, 2, 72, 127, 128, 170, 239, 254, 255}

InitCodec ==
    /\ PageIdle
    /\ callArgs \in SeqsUpTo(ByteSamples, MaxBytesLen)
    /\ callRet = <<>>

CallBytesToBits ==
    /\ callRet = <<>>
    /\ callRet' = <<bytesToBits(callArgs)>>
    /\ UNCHANGED <<pageVars, callArgs>>

CallBitsToBytes ==
    /\ Len(callRet) = 1
    /\ callRet' = Append(callRet, bitsToBytes(callRet[1]))
    /\ UNCHANGED <<pageVars, callArgs>>

NextCodec == CallBytesToBits \/ CallBitsToBytes

SpecCodec == InitCodec /\ [][NextCodec]_vars

\* siftBits on three sequences of one length
InitSift ==
    /\ PageIdle
    /\ \E n \in 0..MaxBitsLen :
          callArgs \in [bitsA : BitSeqs(n), basesA : BasisSeqs(n), basesB : BasisSeqs(n)]
    /\ callRet = <<>>

CallSiftBits ==
    /\ callRet = <<>>
    /\ callRet' = <<siftBits(callArgs.bitsA, callArgs.basesA, callArgs.basesB)>>
    /\ UNCHANGED <<pageVars, callArgs>>

NextSift == CallSiftBits

SpecSift == InitSift /\ [][NextSift]_vars

\* siftBits on three sequences of any lengths
InitSiftAnyLengths ==
    /\ PageIdle
    /\ \E a \in 0..(MaxBitsLen - 1), b \in 0..(MaxBitsLen - 1), c \in 0..(MaxBitsLen - 1) :
          callArgs \in [bitsA : BitSeqs(a), basesA : BasisSeqs(b), basesB : BasisSeqs(c)]
    /\ callRet = <<>>

NextSiftAnyLengths == CallSiftBits

SpecSiftAnyLengths == InitSiftAnyLengths /\ [][NextSiftAnyLengths]_vars

\* validateBinaryInput on a string
StrChars == {"0", "1", " ", "\t", "a", "2"}

InitValidate ==
    /\ PageIdle
    /\ callArgs \in SeqsUpTo(StrChars, MaxStrLen)
    /\ callRet = <<>>

CallValidateBinaryInput ==
    /\ callRet = <<>>
    /\ callRet' = <<validateBinaryInput(callArgs)>>
    /\ UNCHANGED <<pageVars, callArgs>>

NextValidate == CallValidateBinaryInput

SpecValidate == InitValidate /\ [][NextValidate]_vars

\* parseBinaryString on a string, validated or not
InitParse ==
    /\ PageIdle
    /\ callArgs \in SeqsUpTo(StrChars, MaxStrLen)
    /\ callRet = <<>>

CallParseBinaryString ==
    /\ callRet = <<>>
    /\ callRet' = <<parseBinaryString(callArgs)>>
    /\ UNCHANGED <<pageVars, callArgs>>

NextParse == CallParseBinaryString

SpecParse == InitParse /\ [][NextParse]_vars

----------------------------------------------------------------------------
(* Properties *)

\* vocabulary of the properties, independent of the handlers
OnlyBinary(text) == \A i \in 1..Len(text) : text[i] \in {"0", "1", " ", "\t", "\n"}
HasDisallowed(text) == ~OnlyBinary(text)
BitCount(text) == Cardinality({i \in 1..Len(text) : text[i] \in {"0", "1"}})
IsBlankText(text) == \A i \in 1..Len(text) : text[i] \in {" ", "\t", "\n"}
PastedFromOutput ==
    /\ output.kind = "ok"
    /\ keyInput = output.groupedKeyUsed
    /\ ctInput = output.groupedCt

\* C1: after a successful runQKD of a non-empty message, decrypting the
\* displayed ciphertext with the displayed key shows exactly that message.
\* (message is only ever changed by emptying it, so a non-empty message next
\* to an "ok" output is the message that was encrypted.)
C1_RoundTrip ==
    (lastOp = "decryptMessage" /\ message # <<>> /\ PastedFromOutput)
        => /\ decryptOutput.kind = "decrypted"
           /\ decryptOutput.decodedMessage = message

\* C2: a run that encrypts used a key of exactly neededKeyBits bits (the
\* message bit count); a run that reports the key too short had fewer sifted
\* bits than needed and shows no key and no ciphertext.
C2_KeyExactOrTooShort ==
    /\ output.kind = "ok" =>
          /\ BitCount(output.groupedKeyUsed) = output.neededKeyBits
          /\ BitCount(output.groupedCt) = output.neededKeyBits
          /\ BitCount(output.groupedPt) = output.neededKeyBits
    /\ output.kind = "keyTooShort" =>
          /\ output.siftedCount < output.neededKeyBits
          /\ output.groupedKeyUsed = <<>>
          /\ output.groupedCt = <<>>
    /\ (lastOp = "runQKD" /\ message # <<>>) =>
          /\ output.kind \in {"ok", "keyTooShort"}
          /\ output.neededKeyBits = 8 * Len(TextEncode(message))

\* a run whose sifted key was longer than needed and was cut to the message
C2_Witness ==
    /\ lastOp = "runQKD"
    /\ output.kind = "ok"
    /\ output.siftedCount > output.neededKeyBits
    /\ output.neededKeyBits >= 16

\* C3: xorBits applied twice with the same key gives back the first
\* argument, and every result is as long as the arguments.
C3_XorInvolution ==
    /\ \A c \in 1..Len(callRet) : Len(callRet[c]) = Len(callArgs.K)
    /\ Len(callRet) = 2 => callRet[2] = callArgs.K

C3_Witness ==
    /\ Len(callRet) = 2
    /\ Len(callArgs.K) >= 3
    /\ callRet[1] # callArgs.K
    /\ \E i \in 1..Len(callArgs.key) : callArgs.key[i] = 0

\* C4: bytesToBits gives 8 bits per byte, most significant first, and
\* bitsToBytes of its result is the byte sequence again.
C4_ByteBitRoundTrip ==
    /\ Len(callRet) >= 1 =>
          /\ Len(callRet[1]) = 8 * Len(callArgs)
          /\ \A j \in 1..Len(callArgs) :
                /\ callRet[1][8 * (j - 1) + 1] = (IF callArgs[j] >= 128 THEN 1 ELSE 0)
                /\ callRet[1][8 * j] = callArgs[j] % 2
    /\ Len(callRet) = 2 => callRet[2] = callArgs

C4_Witness ==
    /\ Len(callRet) = 2
    /\ Len(callArgs) >= 2
    /\ callArgs[1] = 72
    /\ callArgs[2] = 254

\* C5: for three sequences of one length, siftBits returns the bits of bitsA
\* at the indices where the two bases agree, in their original order.
MatchingIndices == {i \in 1..Len(callArgs.bitsA) : callArgs.basesA[i] = callArgs.basesB[i]}

C5_SiftIsMatchingSubsequence ==
    callRet # <<>> =>
        /\ Len(callRet[1]) = Cardinality(MatchingIndices)
        /\ Len(callRet[1]) <= Len(callArgs.bitsA)
        /\ \A i \in MatchingIndices :
              callRet[1][Cardinality({j \in MatchingIndices : j <= i})] = callArgs.bitsA[i]

C5_Witness ==
    /\ callRet # <<>>
    /\ Len(callArgs.bitsA) >= 3
    /\ Len(callRet[1]) = 2
    /\ callRet[1] = <<1, 0>>
    /\ 1 \notin MatchingIndices

\* C6 as stated: two non-empty fields of 0, 1 and whitespace whose bit counts
\* differ give the length-mismatch result with both counts.
LengthMismatchShown ==
    decryptOutput = [kind |-> "lengthMismatch", keyBits |-> BitCount(keyInput),
                     ctBits |-> BitCount(ctInput), decodedMessage |-> <<>>]

C6_LengthMismatchAsStated ==
    (/\ lastOp = "decryptMessage"
     /\ keyInput # <<>> /\ ctInput # <<>>
     /\ OnlyBinary(keyInput) /\ OnlyBinary(ctInput)
     /\ BitCount(keyInput) # BitCount(ctInput))
        => LengthMismatchShown

\* C6 amended: two fields of 0, 1 and whitespace that each hold at least one
\* bit and whose bit counts differ give the length-mismatch result with both
\* counts, also when neither count is a multiple of 8.
C6_LengthMismatch ==
    (/\ lastOp = "decryptMessage"
     /\ ~IsBlankText(keyInput) /\ ~IsBlankText(ctInput)
     /\ OnlyBinary(keyInput) /\ OnlyBinary(ctInput)
     /\ BitCount(keyInput) # BitCount(ctInput))
        => LengthMismatchShown

C6_Witness ==
    /\ lastOp = "decryptMessage"
    /\ decryptOutput.kind = "lengthMismatch"
    /\ decryptOutput.ctBits = 7
    /\ decryptOutput.keyBits = 5

\* C7: two valid fields of the same bit count L, L not a multiple of 8, give
\* the not-a-multiple-of-8 result with L; a decrypted message is shown only
\* for a positive multiple of 8.
C7_NotByteAligned ==
    /\ (/\ lastOp = "decryptMessage"
        /\ keyInput # <<>> /\ ctInput # <<>>
        /\ OnlyBinary(keyInput) /\ OnlyBinary(ctInput)
        /\ BitCount(keyInput) = BitCount(ctInput)
        /\ BitCount(ctInput) % 8 # 0)
          => decryptOutput = [kind |-> "notMultipleOf8", keyBits |-> 0,
                              ctBits |-> BitCount(ctInput), decodedMessage |-> <<>>]
    /\ decryptOutput.kind = "decrypted" =>
          /\ BitCount(ctInput) = BitCount(keyInput)
          /\ BitCount(ctInput) > 0
          /\ BitCount(ctInput) % 8 = 0
    /\ decryptOutput.kind # "decrypted" => decryptOutput.decodedMessage = <<>>

C7_Witness ==
    /\ lastOp = "decryptMessage"
    /\ decryptOutput.kind = "notMultipleOf8"
    /\ decryptOutput.ctBits = 7

\* C8 as stated: a field with a character other than 0, 1 and whitespace
\* gives the invalid-characters result naming a field that has one.
InvalidShownFor ==
    /\ \/ decryptOutput.kind = "keyInvalid" /\ HasDisallowed(keyInput)
       \/ decryptOutput.kind = "ciphertextInvalid" /\ HasDisallowed(ctInput)
    /\ (HasDisallowed(keyInput) /\ OnlyBinary(ctInput)) => decryptOutput.kind = "keyInvalid"
    /\ (HasDisallowed(ctInput) /\ OnlyBinary(keyInput)) => decryptOutput.kind = "ciphertextInvalid"
    /\ decryptOutput.decodedMessage = <<>>
    /\ decryptOutput.keyBits = 0
    /\ decryptOutput.ctBits = 0

C8_InvalidCharactersAsStated ==
    (lastOp = "decryptMessage" /\ (HasDisallowed(keyInput) \/ HasDisallowed(ctInput)))
        => InvalidShownFor

\* C8 amended: when neither field is empty or whitespace-only, a field with a
\* character other than 0, 1 and whitespace gives the invalid-characters
\* result naming a field that has one; nothing is parsed or decoded.
C8_InvalidCharacters ==
    (/\ lastOp = "decryptMessage"
     /\ ~IsBlankText(keyInput) /\ ~IsBlankText(ctInput)
     /\ (HasDisallowed(keyInput) \/ HasDisallowed(ctInput)))
        => InvalidShownFor

C8_Witness ==
    /\ lastOp = "decryptMessage"
    /\ decryptOutput.kind = "ciphertextInvalid"
    /\ OnlyBinary(keyInput)
    /\ BitCount(keyInput) = 8

\* C9: validateBinaryInput is true exactly for the strings of 0, 1 and
\* whitespace, the empty string included.
C9_ValidIffOnlyBinary ==
    callRet # <<>> => (callRet[1] = OnlyBinary(callArgs))

\* C10: runQKD on an empty or whitespace-only message clears the output and
\* draws nothing.
IsBlankMessage(msg) == \A i \in 1..Len(msg) : msg[i] \in {32, 9, 10}

C10_BlankMessageClears ==
    (lastOp = "runQKD" /\ IsBlankMessage(message)) => output = NoOutput

\* C11: when either field is empty or holds only whitespace, decryptMessage
\* clears the output, whatever the other field holds: no invalid-characters,
\* length-mismatch or not-a-multiple-of-8 result is shown.
C11_EmptyInputFirst ==
    (lastOp = "decryptMessage" /\ (IsBlankText(keyInput) \/ IsBlankText(ctInput)))
        => /\ decryptOutput = NoDecryptOutput
           /\ decryptOutput.kind \notin {"keyInvalid", "ciphertextInvalid",
                                         "lengthMismatch", "notMultipleOf8"}

\* a whitespace-only key next to a ciphertext with a disallowed character
C11_Witness ==
    /\ lastOp = "decryptMessage"
    /\ keyInput # <<>>
    /\ IsBlankText(keyInput)
    /\ HasDisallowed(ctInput)
    /\ decryptOutput.kind = "empty"

\* C12: a decryption whose recovered bytes are valid UTF-8 never shows what
\* a decryption of invalid bytes shows (here: ciphertext 11111111 under key
\* 00000000, the byte FF).
RecoveredBytes ==
    bitsToBytes(xorBits(parseBinaryString(ctInput), parseBinaryString(keyInput)))

RecoveredIsText == DecodeFrom(RecoveredBytes, SkipBOM(RecoveredBytes)) # DecodeError

InvalidEncodingShown == decryptMessage(Cycle(<<"0">>, 8), Cycle(<<"1">>, 8))

C12_InvalidEncodingDistinct ==
    (lastOp = "decryptMessage" /\ decryptOutput.kind = "decrypted" /\ RecoveredIsText)
        => decryptOutput # InvalidEncodingShown

\* C13: the message needs 8 bits per UTF-8 byte; a run that encrypts drew
\* n = 8 times that many bits and bases: the three displayed sequences have
\* length n and the reported raw count is n.
Utf8Length(msg) ==
    LET units[i \in 0..Len(msg)] ==
            IF i = 0 THEN 0
            ELSE units[i - 1] + (IF msg[i] < 128 THEN 1 ELSE IF msg[i] < 2048 THEN 2 ELSE 3)
    IN  units[Len(msg)]

C13_RawLength ==
    /\ (lastOp = "runQKD" /\ message # <<>>) =>
          output.neededKeyBits = 8 * Utf8Length(message)
    /\ output.kind = "ok" =>
          /\ output.rawCount = 8 * output.neededKeyBits
          /\ Len(output.bitsAStr) = output.rawCount
          /\ Len(output.basesAStr) = output.rawCount
          /\ Len(output.basesBStr) = output.rawCount

\* a two-byte message: 16 bits needed, 128 drawn
C13_Witness ==
    /\ lastOp = "runQKD"
    /\ Utf8Length(message) = 2
    /\ output.kind = "ok"
    /\ output.neededKeyBits = 16
    /\ output.rawCount = 128
    /\ Len(output.basesBStr) = 128

\* C14: in a run that encrypts, the displayed ciphertext has one bit per
\* message bit, and its i-th bit is the i-th plaintext bit XOR the i-th bit
\* of the sifted key, the sifted key being the displayed sender bits at the
\* positions where the displayed bases agree, in order.
Digits(text) == SelectSeq(text, LAMBDA c : c \in {"0", "1"})

SiftedShown ==
    LET kept == SelectSeq(Array([i \in 1..Len(output.bitsAStr) |-> i]),
                          LAMBDA i : output.basesAStr[i] = output.basesBStr[i])
    IN  Array([k \in 1..Len(kept) |-> output.bitsAStr[kept[k]]])

C14_CiphertextIsXorOfSiftedPrefix ==
    output.kind = "ok" =>
        LET ct == Digits(output.groupedCt)
            pt == Digits(output.groupedPt)
            sifted == SiftedShown
        IN  /\ Len(ct) = Len(pt)
            /\ Len(sifted) >= Len(pt)
            /\ (lastOp = "runQKD" /\ message # <<>>) => Len(ct) = 8 * Utf8Length(message)
            /\ \A i \in 1..Len(pt) : ct[i] = (IF pt[i] = sifted[i] THEN "0" ELSE "1")
            /\ Digits(output.groupedKeyUsed) = SubSeq(sifted, 1, Len(pt))

\* more sifted bits than message bits, and a key and a plaintext that both
\* have a 1 bit
C14_Witness ==
    /\ lastOp = "runQKD"
    /\ output.kind = "ok"
    /\ output.siftedCount > output.neededKeyBits
    /\ output.groupedCt # output.groupedPt
    /\ output.groupedCt # output.groupedKeyUsed
    /\ Len(Digits(output.groupedCt)) = 16

\* C15: a run on a non-empty message reports the key too short exactly when
\* fewer positions of the drawn bases agree than the message has bits; the
\* report carries the message bit count and the number of agreeing positions
\* and shows no key and no ciphertext.
PreviousDraw == DrawAt(((rng + NumDraws - 2) % NumDraws) + 1)

DrawnParity(p, i) == p[((i - 1) % Len(p)) + 1] % 2

AgreeCount ==
    Cardinality({i \in 1..(64 * Utf8Length(message)) :
                    DrawnParity(PreviousDraw.basesA, i) = DrawnParity(PreviousDraw.basesB, i)})

C15_KeyTooShortReport ==
    (lastOp = "runQKD" /\ message # <<>>) =>
        IF AgreeCount < 8 * Utf8Length(message)
        THEN /\ output = [NoOutput EXCEPT !.kind = "keyTooShort",
                                          !.neededKeyBits = 8 * Utf8Length(message),
                                          !.siftedCount = AgreeCount]
             /\ output.groupedKeyUsed = <<>>
             /\ output.groupedKeyAll = <<>>
             /\ output.groupedCt = <<>>
        ELSE output.kind = "ok"

\* some sifted bits, but fewer than the 16 needed
C15_Witness ==
    /\ lastOp = "runQKD"
    /\ output.kind = "keyTooShort"
    /\ output.neededKeyBits = 16
    /\ output.siftedCount = 8
    /\ AgreeCount = 8

\* C16: what #output shows after runQKD is a function of the message and the
\* draws of that run alone, and what #decryptOutput shows after
\* decryptMessage is a function of the two fields alone; a run leaves
\* #decryptOutput as it was and a decryption leaves #output as it was; an
\* output that is not a successful one holds no key, ciphertext or plaintext.
ShownByLastCall ==
    /\ lastOp = "runQKD" =>
          output = (IF message = <<>> THEN NoOutput
                    ELSE runQKD(message, PreviousDraw.bits, PreviousDraw.basesA,
                                PreviousDraw.basesB))
    /\ lastOp = "decryptMessage" => decryptOutput = decryptMessage(keyInput, ctInput)
    /\ output.kind # "ok" =>
          /\ output.groupedCt = <<>>
          /\ output.groupedKeyUsed = <<>>
          /\ output.groupedPt = <<>>
    /\ decryptOutput.kind # "decrypted" => decryptOutput.decodedMessage = <<>>

OtherPanelKept ==
    /\ lastOp' = "runQKD" => decryptOutput' = decryptOutput
    /\ lastOp' = "decryptMessage" => output' = output
    /\ output' # output => lastOp' = "runQKD"
    /\ decryptOutput' # decryptOutput => lastOp' = "decryptMessage"

C16_IndependentInvocations == [](ShownByLastCall) /\ [][OtherPanelKept]_vars

\* encrypt, decrypt, empty the message and run again: #output is cleared
\* and #decryptOutput still shows the decrypted text
C16_Witness ==
    /\ lastOp = "runQKD"
    /\ message = <<>>
    /\ output = NoOutput
    /\ decryptOutput.kind = "decrypted"
    /\ decryptOutput.decodedMessage # <<>>

\* C17: parseBinaryString drops the whitespace and returns one value per
\* remaining character, and every value of a sequence it returns is 0 or 1
\* (a string with another character gives no sequence).
NonWhiteCount(text) == Cardinality({i \in 1..Len(text) : text[i] \notin {" ", "\t", "\n"}})

C17_ParseReturnsOnlyBits ==
    callRet # <<>> =>
        /\ Len(callRet[1]) = NonWhiteCount(callArgs)
        /\ \A i \in 1..Len(callRet[1]) : callRet[1][i] \in {0, 1}

\* C18: siftBits on sequences of any lengths returns what it returns on the
\* three sequences cut to the shortest length: the bits of bitsA at the
\* positions up to that length where the bases agree, and no bit from a
\* position past it.
ShortestLength ==
    LET a == Len(callArgs.bitsA)
        b == Len(callArgs.basesA)
        c == Len(callArgs.basesB)
    IN  IF a <= b /\ a <= c THEN a ELSE IF b <= c THEN b ELSE c

MatchingWithinShortest ==
    {i \in 1..ShortestLength : callArgs.basesA[i] = callArgs.basesB[i]}

C18_SiftWithinShortest ==
    callRet # <<>> =>
        /\ Len(callRet[1]) = Cardinality(MatchingWithinShortest)
        /\ \A i \in MatchingWithinShortest :
              callRet[1][Cardinality({j \in MatchingWithinShortest : j <= i})]
                  = callArgs.bitsA[i]

\* C19: in the hex-output variant, a run whose sifted key has fewer full
\* bytes than the trimmed message has UTF-8 bytes shows a key-too-short
\* error and no encrypted-message value; a result with an encrypted message
\* is shown only when the key has a full byte for every message byte.
HexKeyTooShort == output.fullKeyBytes < Utf8Length(TrimUnits(message))

C19_HexTooShortShowsError ==
    (lastOp = "runQKD" /\ TrimUnits(message) # <<>>) =>
        /\ HexKeyTooShort =>
              /\ output.kind = "keyTooShort"
              /\ output.byteLen = <<>>
              /\ output.encryptedHexGrouped = <<>>
        /\ output.kind = "result" => ~HexKeyTooShort

====
